---- MODULE Spec2Model ----
(***************************************************************************)
(* Model of the conversational AI subsystem of pathfinder:                 *)
(*   backend/chat/views.py        ConversationViewSet.generate             *)
(*   backend/ai_models/services.py EchoModel, OpenAIModel                  *)
(*   backend/config/settings.py   USE_OPENAI                               *)
(*                                                                         *)
(* Text is a sequence of one-character strings, so that str.strip() and    *)
(* str.lower() are computed, not assumed.  A Python float is a record      *)
(* [k, v]: k = "fin" with v the value in tenths (0.7 is 7), or k = "nan",  *)
(* "inf", "ninf" for the three non-finite floats that float() can return.  *)
(***************************************************************************)
EXTENDS Integers, Sequences, FiniteSets, TLC

VARIABLES
    messages,        \* the Message table, in id order (Meta.ordering = ['id'])
    req,             \* per worker: the locals of one running generate() call
    next_serial,     \* number of generate requests received so far
    use_openai,      \* settings.USE_OPENAI
    openai_pkg,      \* the imported openai package: "none", "v1" or "legacy"
    environ_key,     \* os.environ['OPENAI_API_KEY'] (<<>> when unset or empty)
    openai_api_key,  \* the module attribute openai.api_key (legacy convention)
    v_pc,            \* parameter validator harness: "idle" or "resolved"
    v_data,          \* parameter validator harness: the raw request data
    v_out,           \* parameter validator harness: the resolved parameters
    e_pc,            \* echo provider harness: "idle" or "called"
    e_history,       \* echo provider harness: the history given to chat
    e_params,        \* echo provider harness: the parameters given to chat
    e_reply,         \* echo provider harness: the ChatMessage returned
    conns,           \* per websocket connection: the ChatConsumer and its queue
    groups,          \* the channel layer: group name -> channels in the group
    frames,          \* number of frames clients have sent so far
    rest,            \* the last request and response of the messages action
    ops              \* number of calls of the messages action so far

vars == <<messages, req, next_serial, use_openai, openai_pkg, environ_key,
          openai_api_key, v_pc, v_data, v_out, e_pc, e_history, e_params, e_reply,
          conns, groups, frames, rest, ops>>

echo_vars == <<e_pc, e_history, e_params, e_reply>>

stream_vars == <<conns, groups, frames>>

rest_vars == <<rest, ops>>

more_vars == <<echo_vars, stream_vars, rest_vars>>

orch_vars == <<messages, req, next_serial, use_openai, openai_pkg, environ_key,
               openai_api_key>>

val_vars == <<v_pc, v_data, v_out>>

-----------------------------------------------------------------------------
(* Text *)

IsSpace(c) == c = " "

RECURSIVE LStrip(_)
LStrip(s) == IF s # <<>> /\ IsSpace(Head(s)) THEN LStrip(Tail(s)) ELSE s

RECURSIVE RStrip(_)
RStrip(s) ==
    IF s # <<>> /\ IsSpace(s[Len(s)]) THEN RStrip(SubSeq(s, 1, Len(s) - 1)) ELSE s

\* str.strip()
Strip(s) == RStrip(LStrip(s))

LowerChar(c) ==
    CASE c = "O" -> "o"
      [] c = "A" -> "a"
      [] c = "I" -> "i"
      [] c = "E" -> "e"
      [] OTHER -> c

\* str.lower()
Lower(s) == [i \in 1..Len(s) |-> LowerChar(s[i])]

IsDigit(c) == c \in {"0", "1", "2", "3", "4", "5", "6", "7", "8", "9"}

DigitVal(c) ==
    CASE c = "0" -> 0 [] c = "1" -> 1 [] c = "2" -> 2 [] c = "3" -> 3
      [] c = "4" -> 4 [] c = "5" -> 5 [] c = "6" -> 6 [] c = "7" -> 7
      [] c = "8" -> 8 [] c = "9" -> 9

AllDigits(s) == \A i \in 1..Len(s) : IsDigit(s[i])

RECURSIVE DigitsVal(_)
DigitsVal(s) ==
    IF s = <<>> THEN 0
    ELSE 10 * DigitsVal(SubSeq(s, 1, Len(s) - 1)) + DigitVal(s[Len(s)])

-----------------------------------------------------------------------------
(* JSON values of the request body *)

JAbsent == [t |-> "absent", s |-> <<>>, n |-> 0]
JNull == [t |-> "null", s |-> <<>>, n |-> 0]
JStr(s) == [t |-> "str", s |-> s, n |-> 0]
\* a JSON number, n in tenths
JNum(n) == [t |-> "num", s |-> <<>>, n |-> n]
\* JSON true (n = 1) or false (n = 0)
JBool(n) == [t |-> "bool", s |-> <<>>, n |-> n]

\* dict.get(key, default)
Get(v, default) == IF v.t = "absent" THEN default ELSE v

-----------------------------------------------------------------------------
(* Python floats and the built-ins applied to them *)

Fin(v) == [k |-> "fin", v |-> v]
NaN == [k |-> "nan", v |-> 0]
PosInf == [k |-> "inf", v |-> 0]
NegInf == [k |-> "ninf", v |-> 0]

\* a < b on floats: every comparison with nan is false
FLt(a, b) ==
    CASE a.k = "nan" \/ b.k = "nan" -> FALSE
      [] a.k = "ninf" -> b.k # "ninf"
      [] a.k = "inf" -> FALSE
      [] b.k = "ninf" -> FALSE
      [] b.k = "inf" -> TRUE
      [] OTHER -> a.v < b.v

\* min(a, b): the first argument unless the second is smaller
PyMin(a, b) == IF FLt(b, a) THEN b ELSE a

\* max(a, b): the first argument unless the second is larger
PyMax(a, b) == IF FLt(a, b) THEN b ELSE a

Ok(v) == [ok |-> TRUE, v |-> v]
Fail == [ok |-> FALSE, v |-> Fin(0)]

UnsignedPart(s) == IF s # <<>> /\ Head(s) \in {"-", "+"} THEN Tail(s) ELSE s
Sign(s) == IF s # <<>> /\ Head(s) = "-" THEN -1 ELSE 1

DotAt(s) == {i \in 1..Len(s) : s[i] = "."}

\* float(str): surrounding whitespace ignored, optional sign, then nan, inf or
\* decimal digits with at most one point (one fractional digit is resolved)
FloatOfStr(s0) ==
    LET s == Strip(s0)
        u == Lower(UnsignedPart(s))
        dots == DotAt(u)
    IN  IF u = <<"n", "a", "n">> THEN Ok(NaN)
        ELSE IF u = <<"i", "n", "f">> THEN Ok(IF Sign(s) = -1 THEN NegInf ELSE PosInf)
        ELSE IF dots = {} THEN
            IF u # <<>> /\ AllDigits(u) THEN Ok(Fin(Sign(s) * 10 * DigitsVal(u))) ELSE Fail
        ELSE IF Cardinality(dots) > 1 THEN Fail
        ELSE LET d == CHOOSE i \in dots : TRUE
                 ip == SubSeq(u, 1, d - 1)
                 fp == SubSeq(u, d + 1, Len(u))
             IN  IF (ip # <<>> \/ fp # <<>>) /\ AllDigits(ip) /\ AllDigits(fp)
                 THEN Ok(Fin(Sign(s) * (10 * DigitsVal(ip)
                                        + (IF fp = <<>> THEN 0 ELSE DigitVal(fp[1])))))
                 ELSE Fail

\* float(x) for a value taken from the request data; Fail is a raised exception
PyFloat(x) ==
    CASE x.t = "num" -> Ok(Fin(x.n))
      [] x.t = "bool" -> Ok(Fin(10 * x.n))
      [] x.t = "str" -> FloatOfStr(x.s)
      [] OTHER -> Fail

\* int(str): surrounding whitespace ignored, optional sign, decimal digits only
IntOfStr(s0) ==
    LET s == Strip(s0)
        u == UnsignedPart(s)
    IN  IF u # <<>> /\ AllDigits(u) THEN Ok(Sign(s) * DigitsVal(u)) ELSE [ok |-> FALSE, v |-> 0]

\* truncation toward zero of a value in tenths
Trunc(n) == IF n >= 0 THEN n \div 10 ELSE -((-n) \div 10)

\* int(x) for a value taken from the request data
PyInt(x) ==
    CASE x.t = "num" -> Ok(Trunc(x.n))
      [] x.t = "bool" -> Ok(x.n)
      [] x.t = "str" -> IntOfStr(x.s)
      [] OTHER -> [ok |-> FALSE, v |-> 0]

IntMin(a, b) == IF b < a THEN b ELSE a
IntMax(a, b) == IF a < b THEN b ELSE a

-----------------------------------------------------------------------------
(* Parameter parsing and clamping, views.py lines 56-73 *)

\* 0.7, in tenths
DefaultTemperature == 7
\* 1.0, in tenths
DefaultTopP == 10
DefaultMaxTokens == 512
\* 0.0 and 1.0, in tenths
FloatFloor == 0
FloatCeil == 10
MaxTokensFloor == 1
MaxTokensCeil == 2048

\* bool(x) of a value taken from the request data
Truthy(x) ==
    CASE x.t = "str" -> x.s # <<>>
      [] x.t \in {"num", "bool"} -> x.n # 0
      [] OTHER -> FALSE

\* try: float(data.get(key, default)) except Exception: default
ParseFloatField(x, default) ==
    LET r == PyFloat(Get(x, JNum(default)))
    IN  IF r.ok THEN r.v ELSE Fin(default)

\* try: int(data.get(key, default)) except Exception: default
ParseIntField(x, default) ==
    LET r == PyInt(Get(x, JNum(10 * default)))
    IN  IF r.ok THEN r.v ELSE default

\* mutant: max(min(value, 1.0), 0.0)
ClampFloat_Swapped(f) == PyMax(PyMin(f, Fin(FloatCeil)), Fin(FloatFloor))

\* max(0.0, min(1.0, value))
ClampFloat(f) == PyMax(Fin(FloatFloor), PyMin(Fin(FloatCeil), f))

\* max(1, min(2048, value))
ClampInt(n) == IntMax(MaxTokensFloor, IntMin(MaxTokensCeil, n))

\* mutant: one try block around the three conversions
ResolveParams_OneTry(data) ==
    LET t == PyFloat(Get(data.temperature, JNum(DefaultTemperature)))
        p == PyFloat(Get(data.top_p, JNum(DefaultTopP)))
        k == PyInt(Get(data.max_tokens, JNum(10 * DefaultMaxTokens)))
        all == t.ok /\ p.ok /\ k.ok
    IN  [model |-> IF Truthy(data.model) THEN data.model ELSE JNull,
         temperature |-> ClampFloat(IF all THEN t.v ELSE Fin(DefaultTemperature)),
         top_p |-> ClampFloat(IF all THEN p.v ELSE Fin(DefaultTopP)),
         max_tokens |-> ClampInt(IF all THEN k.v ELSE DefaultMaxTokens)]

\* lines 57-73: the keyword arguments later passed to provider.chat
ResolveParams(data) ==
    [model |-> IF Truthy(data.model) THEN data.model ELSE JNull,
     temperature |-> ClampFloat(ParseFloatField(data.temperature, DefaultTemperature)),
     top_p |-> ClampFloat(ParseFloatField(data.top_p, DefaultTopP)),
     max_tokens |-> ClampInt(ParseIntField(data.max_tokens, DefaultMaxTokens))]

-----------------------------------------------------------------------------
(* Providers, ai_models/services.py *)

S_echo == <<"e", "c", "h", "o">>
S_openai == <<"o", "p", "e", "n", "a", "i">>
NoInput == <<"(", "n", "o", " ", "i", "n", "p", "u", "t", ")">>

ChatMessage(role, content) == [role |-> role, content |-> content]

UserPositions(history) == {i \in 1..Len(history) : history[i].role = "user"}

Max(S) == CHOOSE x \in S : \A y \in S : y <= x

Min(S) == CHOOSE x \in S : \A y \in S : x <= y

\* an echo that scans the history from the front
EchoChat_First(history, params) ==
    LET us == UserPositions(history)
    IN  ChatMessage("assistant", IF us = {} THEN NoInput ELSE history[Min(us)].content)

\* EchoModel.chat: the content of the last user message, else '(no input)'
EchoChat(history, params) ==
    LET us == UserPositions(history)
    IN  ChatMessage("assistant", IF us = {} THEN NoInput ELSE history[Max(us)].content)

NoProvider == [kind |-> "none", api_key |-> <<>>, mode |-> "", client |-> "none"]
EchoModel == [kind |-> "echo", api_key |-> <<>>, mode |-> "", client |-> "none"]

\* What openai.OpenAI() does when called: returns a client, raises the TypeError
\* that names 'proxies' (and the retry with an httpx client then returns or
\* raises), raises another TypeError, or raises another exception.
ClientOutcomes == {"ok", "proxies_retry_ok", "proxies_retry_fails", "type_error", "error"}

\* mutant: a placeholder credential when none is configured
ResolveKey_Placeholder(api_key, env) ==
    IF api_key # <<>> THEN api_key ELSE IF env # <<>> THEN env ELSE <<"d">>

\* line 46: api_key or os.environ.get('OPENAI_API_KEY')
ResolveKey(api_key, env) == IF api_key # <<>> THEN api_key ELSE env

\* one call of openai.OpenAI(...): the client asked for and how the call ended
Attempt(client, result) == [client |-> client, result |-> result]

ProxiesTypeError == "TypeError: unexpected keyword argument 'proxies'"

\* a constructor that retries after any TypeError
OpenAIModelInit_RetryAny(api_key, pkg, env, attr, outcome) ==
    LET key == ResolveKey(api_key, env)
        raised(e, env2, trace) ==
            [ok |-> FALSE, err |-> e, self |-> NoProvider, env |-> env2, attr |-> attr,
             trace |-> trace]
        built(mode, client, env2, attr2, trace) ==
            [ok |-> TRUE, err |-> "",
             self |-> [kind |-> "openai", api_key |-> key, mode |-> mode,
                       client |-> client],
             env |-> env2, attr |-> attr2, trace |-> trace]
    IN  IF pkg = "none" THEN raised("openai package not installed", env, <<>>)
        ELSE IF key = <<>> THEN raised("OPENAI_API_KEY not configured", env, <<>>)
        ELSE IF pkg = "v1" THEN
            CASE outcome = "ok" ->
                   built("v1", "default", key, attr, <<Attempt("default", "ok")>>)
              [] outcome \in {"proxies_retry_ok", "type_error"} ->
                   built("v1", "httpx", key, attr,
                         <<Attempt("default", IF outcome = "type_error" THEN "TypeError"
                                              ELSE ProxiesTypeError),
                           Attempt("httpx", "ok")>>)
              [] outcome = "proxies_retry_fails" ->
                   raised("retry failed", key,
                          <<Attempt("default", ProxiesTypeError),
                            Attempt("httpx", "retry failed")>>)
              [] OTHER ->
                   raised("OpenAIError", key, <<Attempt("default", "OpenAIError")>>)
        ELSE built("legacy", "none", env, key, <<>>)

\* OpenAIModel.__init__(api_key) with the given outcome of openai.OpenAI():
\* ok = FALSE is a raised exception, err its text; env and attr are the values of
\* os.environ['OPENAI_API_KEY'] and openai.api_key when the constructor ends;
\* trace lists the calls of openai.OpenAI(...) it made.
OpenAIModelInit(api_key, pkg, env, attr, outcome) ==
    LET key == ResolveKey(api_key, env)
        raised(e, env2, trace) ==
            [ok |-> FALSE, err |-> e, self |-> NoProvider, env |-> env2, attr |-> attr,
             trace |-> trace]
        built(mode, client, env2, attr2, trace) ==
            [ok |-> TRUE, err |-> "",
             self |-> [kind |-> "openai", api_key |-> key, mode |-> mode,
                       client |-> client],
             env |-> env2, attr |-> attr2, trace |-> trace]
    IN  IF pkg = "none" THEN raised("openai package not installed", env, <<>>)
        ELSE IF key = <<>> THEN raised("OPENAI_API_KEY not configured", env, <<>>)
        ELSE IF pkg = "v1" THEN
            CASE outcome = "ok" ->
                   built("v1", "default", key, attr, <<Attempt("default", "ok")>>)
              [] outcome = "proxies_retry_ok" ->
                   built("v1", "httpx", key, attr,
                         <<Attempt("default", ProxiesTypeError), Attempt("httpx", "ok")>>)
              [] outcome = "proxies_retry_fails" ->
                   raised("retry failed", key,
                          <<Attempt("default", ProxiesTypeError),
                            Attempt("httpx", "retry failed")>>)
              [] outcome = "type_error" ->
                   raised("TypeError", key, <<Attempt("default", "TypeError")>>)
              [] OTHER ->
                   raised("OpenAIError", key, <<Attempt("default", "OpenAIError")>>)
        ELSE built("legacy", "none", env, key, <<>>)

\* What the completion service answers: the text of the first choice (None is
\* <<>>), or a transport or API failure.
RemoteTexts == {<<>>, <<" ", "r", " ">>}

\* OpenAIModel.chat on a received completion text
OpenAIChat(text) == ChatMessage("assistant", Strip(text))

-----------------------------------------------------------------------------
(* Persistence, chat/models.py *)

Users == {"alice", "bob"}

\* Conversation rows: id 1 is owned by alice, id 2 by bob; there is no id 3
Conversations == {[id |-> 1, owner |-> "alice"], [id |-> 2, owner |-> "bob"]}
\* the ids that generate requests address: alice's conversation and the missing id
TargetIds == {1, 3}

\* the Message table when the model starts: bob's conversation holds one message
InitialMessages ==
    <<[id |-> 1, conversation |-> 2, role |-> "user", content |-> <<"z">>, serial |-> 0]>>

\* mutant: every conversation, whoever owns it
QuerySet_All(user) == {c.id : c \in Conversations}

\* Conversation.objects.filter(owner=user), as the set of ids
QuerySet(user) == {c.id : c \in {x \in Conversations : x.owner = user}}

\* mutant: the rows of every conversation
MessagesOf_Any(msgs, conv) == msgs

\* convo.messages.all(): the rows of the conversation, by id
MessagesOf(msgs, conv) == SelectSeq(msgs, LAMBDA m : m.conversation = conv)

\* mutant: ids numbered within the conversation
Create_PerConversation(msgs, conv, role, content, serial) ==
    Append(msgs, [id |-> Len(SelectSeq(msgs, LAMBDA m : m.conversation = conv)) + 1,
                  conversation |-> conv, role |-> role,
                  content |-> content, serial |-> serial])

\* mutant: newest first, as in Conversation.Meta.ordering
Create_NewestFirst(msgs, conv, role, content, serial) ==
    <<[id |-> Len(msgs) + 1, conversation |-> conv, role |-> role,
       content |-> content, serial |-> serial]>> \o msgs

\* Message.objects.create(conversation, role, content); serial records the
\* request that made the row
Create(msgs, conv, role, content, serial) ==
    Append(msgs, [id |-> Len(msgs) + 1, conversation |-> conv, role |-> role,
                  content |-> content, serial |-> serial])

-----------------------------------------------------------------------------
(* The synchronous generate operation, chat/views.py lines 44-93 *)

\* number of generate requests in one behaviour
MaxRequests == 2

\* the worker pool: one task per request
Workers == {1, 2}

\* request bodies: the content field
Contents == {JAbsent, JNull, JStr(<<" ">>), JStr(<<"a">>), JStr(<<" ", "b">>)}

\* request bodies: the parameter fields (an unparsable temperature, a top_p of
\* 1.5, a max_tokens of 0); the validator harness below covers the other inputs
ParamSamples ==
    {[model |-> JStr(<<"m">>), temperature |-> JStr(<<"x">>), top_p |-> JNum(15),
      max_tokens |-> JNum(0)]}

RequestData ==
    {[content |-> c, model |-> p.model, temperature |-> p.temperature,
      top_p |-> p.top_p, max_tokens |-> p.max_tokens] : c \in Contents, p \in ParamSamples}

NoData ==
    [content |-> JAbsent, model |-> JAbsent, temperature |-> JAbsent,
     top_p |-> JAbsent, max_tokens |-> JAbsent]

\* the provider query parameter: absent (None), or its text
Hints == {<<>>, S_echo, <<"O", "p", "e", "n", "A", "I", " ">>}

NoParams ==
    [model |-> JNull, temperature |-> Fin(0), top_p |-> Fin(0), max_tokens |-> 0]

NoResp ==
    [status |-> 0, detail |-> "", error |-> "", exc |-> "", user |-> 0,
     assistant |-> 0, provider_used |-> ""]

\* the locals of generate(), each reset once the code no longer reads it; log
\* lists what the call has done so far
IdleReq ==
    [pc |-> "idle", serial |-> 0, user |-> "", conv |-> 0, data |-> NoData,
     hint |-> <<>>, content |-> JAbsent, text |-> <<>>, user_msg |-> 0,
     history |-> <<>>,
     params |-> NoParams, force |-> <<>>, want_openai |-> FALSE,
     provider |-> NoProvider, provider_used |-> "", reply |-> <<>>,
     asst_msg |-> 0, log |-> <<>>, attempts |-> <<>>, resp |-> NoResp]

\* mutant: the check without strip()
Blank_NoStrip(text) == text = <<>>

\* line 50: not text.strip()
Blank(text) == Strip(text) = <<>>

\* line 75: (request.query_params.get('provider') or '').lower().strip()
Force(hint) == Strip(Lower(hint))

\* line 76: force == 'openai' or getattr(settings, 'USE_OPENAI', False)
WantOpenAI(force, flag) == force = S_openai \/ flag

\* mutant: the user message is not stored at this point
SaveUser_Deferred(msgs, conv, text, serial) == msgs

\* line 53: Message.objects.create(conversation=convo, role='user', content=text)
SaveUser(msgs, conv, text, serial) == Create(msgs, conv, "user", text, serial)

\* mutant: the reply is returned without being stored
SaveAssistant_Skipped(msgs, conv, reply, serial) == msgs

\* line 88: Message.objects.create(conversation=convo, role='assistant', ...)
SaveAssistant(msgs, conv, reply, serial) == Create(msgs, conv, "assistant", reply, serial)

\* mutant: a failed OpenAIModel() falls back to EchoModel()
ConstructProvider_Fallback(want, pkg, env, attr, outcome) ==
    LET c == OpenAIModelInit(<<>>, pkg, env, attr, outcome)
    IN  IF want /\ c.ok THEN
            [ok |-> TRUE, provider |-> c.self, provider_used |-> "openai",
             event |-> "construct_openai", status |-> 0, detail |-> "", error |-> "",
             env |-> c.env, attr |-> c.attr, trace |-> c.trace]
        ELSE
            [ok |-> TRUE, provider |-> EchoModel, provider_used |-> "echo",
             event |-> "construct_echo", status |-> 0, detail |-> "", error |-> "",
             env |-> env, attr |-> attr, trace |-> <<>>]

\* mutant: line 81 forgotten, the label stays 'echo'
ConstructProvider_Stale(want, pkg, env, attr, outcome) ==
    IF want THEN
        LET c == OpenAIModelInit(<<>>, pkg, env, attr, outcome)
        IN  [ok |-> c.ok, provider |-> c.self, provider_used |-> "echo",
             event |-> IF c.ok THEN "construct_openai" ELSE "construct_openai_failed",
             status |-> IF c.ok THEN 0 ELSE 502,
             detail |-> IF c.ok THEN "" ELSE "OpenAI provider not available",
             error |-> c.err, env |-> c.env, attr |-> c.attr, trace |-> c.trace]
    ELSE
        [ok |-> TRUE, provider |-> EchoModel, provider_used |-> "echo",
         event |-> "construct_echo", status |-> 0, detail |-> "", error |-> "",
         env |-> env, attr |-> attr, trace |-> <<>>]

\* lines 78-86: OpenAIModel() when the remote provider is wanted, and the 502
\* response when it raises; EchoModel() otherwise
ConstructProvider(want, pkg, env, attr, outcome) ==
    IF want THEN
        LET c == OpenAIModelInit(<<>>, pkg, env, attr, outcome)
        IN  [ok |-> c.ok, provider |-> c.self,
             provider_used |-> IF c.ok THEN "openai" ELSE "echo",
             event |-> IF c.ok THEN "construct_openai" ELSE "construct_openai_failed",
             status |-> IF c.ok THEN 0 ELSE 502,
             detail |-> IF c.ok THEN "" ELSE "OpenAI provider not available",
             error |-> c.err, env |-> c.env, attr |-> c.attr, trace |-> c.trace]
    ELSE
        [ok |-> TRUE, provider |-> EchoModel, provider_used |-> "echo",
         event |-> "construct_echo", status |-> 0, detail |-> "", error |-> "",
         env |-> env, attr |-> attr, trace |-> <<>>]

\* line 55: the history handed to the provider
History(msgs, conv) ==
    LET rows == MessagesOf(msgs, conv)
    IN  [i \in 1..Len(rows) |-> ChatMessage(rows[i].role, rows[i].content)]

\* the state of the harnesses and of the other paths when the model starts
NoChatMessage == [role |-> "", content |-> <<>>]

\* a websocket connection that has not arrived yet; group_name is <<>> until
\* connect() sets the attribute; prompt is the prompt of the last generation
\* started, gens the number of generations started, out the events passed
\* to send_json
NewConn ==
    [state |-> "new", token |-> "", user |-> "", conversation_id |-> 0, lookup |-> "",
     allowed |-> FALSE, group_name |-> <<>>, inbox |-> <<>>, busy |-> FALSE,
     prompt |-> <<>>, next_chunk |-> 0, gens |-> 0, out |-> <<>>, peer |-> "none"]

ConnIds == {1, 2}

NoRest == [op |-> "", user |-> "", conv |-> 0, status |-> 0, rows |-> <<>>]

InitMore ==
    /\ e_pc = "idle"
    /\ e_history = <<>>
    /\ e_params = NoParams
    /\ e_reply = NoChatMessage
    /\ conns = [c \in ConnIds |-> NewConn]
    /\ groups = [g \in {} |-> {}]
    /\ frames = 0
    /\ rest = NoRest
    /\ ops = 0

\* The process-wide settings are fixed for a run: USE_OPENAI is read with
\* getattr(settings, 'USE_OPENAI', False) and set in settings.py line 37 (True as
\* committed, the environment flag commented out beside it); both values are
\* covered, as are the three states of the openai package and of the credential.
Init ==
    /\ messages = InitialMessages
    /\ req = [w \in Workers |-> IdleReq]
    /\ next_serial = 0
    /\ use_openai \in BOOLEAN
    /\ openai_pkg \in {"none", "v1", "legacy"}
    /\ environ_key \in {<<>>, <<"k">>}
    /\ openai_api_key = <<>>
    /\ v_pc = "idle"
    /\ v_data = NoData
    /\ v_out = NoParams
    /\ InitMore

\* lines 47-53: get_object, the content check, the user message; the request
\* goes to the first free worker
GenerateReceive(w) ==
    /\ req[w].pc = "idle"
    /\ \A v \in Workers : v < w => req[v].pc # "idle"
    /\ next_serial < MaxRequests
    /\ \E user \in Users, conv \in TargetIds, data \in RequestData, hint \in Hints :
        LET serial == next_serial + 1
            r0 == [IdleReq EXCEPT !.serial = serial, !.user = user, !.conv = conv]
            text == Get(data.content, JStr(<<>>))
        IN  /\ next_serial' = serial
            /\ IF conv \notin QuerySet(user) THEN
                   /\ req' = [req EXCEPT ![w] = [r0 EXCEPT !.pc = "done",
                          !.resp = [NoResp EXCEPT !.status = 404, !.exc = "Http404"]]]
                   /\ UNCHANGED messages
               ELSE IF text.t # "str" THEN
                   /\ req' = [req EXCEPT ![w] = [r0 EXCEPT !.pc = "done",
                          !.content = data.content,
                          !.resp = [NoResp EXCEPT !.status = 500, !.exc = "AttributeError"]]]
                   /\ UNCHANGED messages
               ELSE IF Blank(text.s) THEN
                   /\ req' = [req EXCEPT ![w] = [r0 EXCEPT !.pc = "done",
                          !.content = data.content, !.text = text.s,
                          !.resp = [NoResp EXCEPT !.status = 400,
                                                  !.detail = "content is required"]]]
                   /\ UNCHANGED messages
               ELSE
                   /\ messages' = SaveUser(messages, conv, text.s, serial)
                   /\ req' = [req EXCEPT ![w] = [r0 EXCEPT !.pc = "history",
                          !.data = data, !.hint = hint,
                          !.content = data.content, !.text = text.s,
                          !.user_msg = Len(messages) + 1,
                          !.log = <<"user_saved">>]]
    /\ UNCHANGED <<use_openai, openai_pkg, environ_key, openai_api_key, val_vars, more_vars>>

\* lines 55-77: load the history, resolve the parameters, decide the provider
GenerateBuild(w) ==
    /\ req[w].pc = "history"
    /\ LET force == Force(req[w].hint)
       IN  req' = [req EXCEPT ![w] = [@ EXCEPT !.pc = "construct",
                      !.data = NoData, !.hint = <<>>,
                      !.history = History(messages, req[w].conv),
                      !.params = ResolveParams(req[w].data),
                      !.force = force,
                      !.want_openai = WantOpenAI(force, use_openai),
                      !.provider_used = "echo"]]
    /\ UNCHANGED <<messages, next_serial, use_openai, openai_pkg, environ_key,
                   openai_api_key, val_vars, more_vars>>

\* lines 78-86: construct the provider; a failed construction ends the request
GenerateConstruct(w) ==
    /\ req[w].pc = "construct"
    /\ \E outcome \in ClientOutcomes :
        LET c == ConstructProvider(req[w].want_openai, openai_pkg, environ_key,
                                   openai_api_key, outcome)
        IN  /\ environ_key' = c.env
            /\ openai_api_key' = c.attr
            /\ req' = [req EXCEPT ![w] =
                   IF c.ok THEN
                       [@ EXCEPT !.pc = "chat", !.provider = c.provider,
                                 !.provider_used = c.provider_used,
                                 !.attempts = c.trace,
                                 !.log = Append(@, c.event)]
                   ELSE
                       [@ EXCEPT !.pc = "done",
                                 !.history = <<>>, !.params = NoParams,
                                 !.attempts = c.trace,
                                 !.log = Append(@, c.event),
                                 !.resp = [NoResp EXCEPT !.status = c.status,
                                                         !.detail = c.detail,
                                                         !.error = c.error]]]
    /\ UNCHANGED <<messages, next_serial, use_openai, openai_pkg, val_vars, more_vars>>

\* line 87: provider.chat(history, ...); an exception raised by the remote
\* call is not handled in generate()
GenerateChat(w) ==
    /\ req[w].pc = "chat"
    /\ IF req[w].provider.kind = "echo" THEN
           req' = [req EXCEPT ![w] = [@ EXCEPT !.pc = "save",
                      !.history = <<>>, !.params = NoParams,
                      !.reply = EchoChat(req[w].history, req[w].params).content,
                      !.log = Append(@, "chat_echo")]]
       ELSE
           \E answer \in {"text", "raises"} :
               IF answer = "text" THEN
                   \E text \in RemoteTexts :
                       req' = [req EXCEPT ![w] = [@ EXCEPT !.pc = "save",
                                  !.history = <<>>, !.params = NoParams,
                                  !.reply = OpenAIChat(text).content,
                                  !.log = Append(@, "chat_openai")]]
               ELSE
                   req' = [req EXCEPT ![w] = [@ EXCEPT !.pc = "done",
                              !.history = <<>>, !.params = NoParams,
                              !.log = Append(@, "chat_openai_failed"),
                              !.resp = [NoResp EXCEPT !.status = 500,
                                                      !.exc = "ProviderException"]]]
    /\ UNCHANGED <<messages, next_serial, use_openai, openai_pkg, environ_key,
                   openai_api_key, val_vars, more_vars>>

\* lines 88-93: the assistant message and the 201 response
GenerateSave(w) ==
    /\ req[w].pc = "save"
    /\ messages' = SaveAssistant(messages, req[w].conv, req[w].reply, req[w].serial)
    /\ req' = [req EXCEPT ![w] = [@ EXCEPT !.pc = "done",
                   !.asst_msg = Len(messages) + 1,
                   !.log = Append(@, "asst_saved"),
                   !.resp = [NoResp EXCEPT !.status = 201, !.user = req[w].user_msg,
                                           !.assistant = Len(messages) + 1,
                                           !.provider_used = req[w].provider_used]]]
    /\ UNCHANGED <<next_serial, use_openai, openai_pkg, environ_key, openai_api_key,
                   val_vars, more_vars>>

\* the response is sent and the worker takes the next request
Finish(w) ==
    /\ req[w].pc = "done"
    /\ req' = [req EXCEPT ![w] = IdleReq]
    /\ UNCHANGED <<messages, next_serial, use_openai, openai_pkg, environ_key,
                   openai_api_key, val_vars, more_vars>>

Next ==
    \E w \in Workers :
        \/ GenerateReceive(w)
        \/ GenerateBuild(w)
        \/ GenerateConstruct(w)
        \/ GenerateChat(w)
        \/ GenerateSave(w)
        \/ Finish(w)

Spec == Init /\ [][Next]_vars

-----------------------------------------------------------------------------
(* The parameter validator on its own: lines 57-73 applied to every raw input *)

\* how far below the floor and above the ceiling the raw numbers reach
RawSlack == 2

FloatStrings ==
    {<<>>, <<"x">>, <<"0", ".", "5">>, <<" ", "1", " ">>, <<"-", "3">>, <<"2", ".", "5">>,
     <<"n", "a", "n">>, <<"i", "n", "f">>, <<"-", "i", "n", "f">>, <<"1", ".", "2", ".", "3">>}

\* absent, null, true, every tenth around the valid range, and text
RawFloats ==
    {JAbsent, JNull, JBool(1)}
    \cup {JNum(n) : n \in (FloatFloor - RawSlack)..(FloatCeil + RawSlack)}
    \cup {JStr(t) : t \in FloatStrings}

IntStrings ==
    {<<>>, <<"x">>, <<"0">>, <<" ", "7", " ">>, <<"-", "1">>, <<"3", ".", "5">>,
     <<"2", "0", "4", "8">>, <<"2", "0", "4", "9">>}

\* absent, null, true, the whole numbers around both limits, 0.5, 3.7, 512,
\* 2048.5, and text
RawInts ==
    {JAbsent, JNull, JBool(1), JNum(5), JNum(37), JNum(10 * DefaultMaxTokens),
     JNum(10 * MaxTokensCeil + 5)}
    \cup {JNum(10 * n) : n \in (MaxTokensFloor - RawSlack)..(MaxTokensFloor + RawSlack)}
    \cup {JNum(10 * n) : n \in (MaxTokensCeil - RawSlack)..(MaxTokensCeil + RawSlack)}
    \cup {JStr(t) : t \in IntStrings}

RawModels == {JAbsent, JStr(<<>>), JStr(<<"m">>)}

ValidatorData ==
    {[content |-> JStr(<<"a">>), model |-> m, temperature |-> t, top_p |-> p,
      max_tokens |-> k] : m \in RawModels, t \in RawFloats, p \in RawFloats, k \in RawInts}

InitParams ==
    /\ messages = InitialMessages
    /\ req = [w \in Workers |-> IdleReq]
    /\ next_serial = 0
    /\ use_openai = FALSE
    /\ openai_pkg = "none"
    /\ environ_key = <<>>
    /\ openai_api_key = <<>>
    /\ v_pc = "idle"
    /\ v_data = NoData
    /\ v_out = NoParams
    /\ InitMore

\* lines 57-73 on one request body
Validate ==
    /\ v_pc = "idle"
    /\ \E data \in ValidatorData :
        /\ v_data' = data
        /\ v_out' = ResolveParams(data)
    /\ v_pc' = "resolved"
    /\ UNCHANGED <<orch_vars, more_vars>>

NextParams == Validate

SpecParams == InitParams /\ [][NextParams]_vars

-----------------------------------------------------------------------------
(* Properties of the synchronous generate operation *)

\* the rows a request has appended, as (conversation, role, content), in table order
RowsBy(serial) ==
    LET rows == SelectSeq(messages, LAMBDA m : m.serial = serial)
    IN  [i \in 1..Len(rows) |->
            [conversation |-> rows[i].conversation, role |-> rows[i].role,
             content |-> rows[i].content]]

Row(conv, role, content) == [conversation |-> conv, role |-> role, content |-> content]

Logged(r, e) == \E i \in 1..Len(r.log) : r.log[i] = e

ProviderEvents ==
    {"construct_echo", "construct_openai", "construct_openai_failed", "chat_echo",
     "chat_openai", "chat_openai_failed"}

\* the user row of request r is in its conversation's ordered messages
UserRowKept(r) ==
    \E i \in 1..Len(MessagesOf(messages, r.conv)) :
        LET m == MessagesOf(messages, r.conv)[i]
        IN  m.id = r.user_msg /\ m.role = "user" /\ m.content = r.text
            /\ m.serial = r.serial

\* the request passed the content check (line 50)
Accepted(r) == r.pc # "idle" /\ r.user_msg # 0

\* C1: for a non-empty prompt the user message is stored before any provider is
\* constructed or called, and it is in the conversation whenever the request has
\* gone that far, also once the request has ended with a construction failure,
\* a call failure or a reply.
InvC1 ==
    \A w \in Workers :
        LET r == req[w]
        IN  /\ (r.pc \notin {"idle", "done"} \/ r.log # <<>>) =>
                   /\ r.log # <<>> /\ r.log[1] = "user_saved"
                   /\ UserRowKept(r)
            /\ \A i \in 1..Len(r.log) : r.log[i] \in ProviderEvents => i > 1
            /\ (r.pc = "done" /\ r.resp.status \in {201, 502}) => UserRowKept(r)
            /\ (r.pc = "done" /\ r.resp.exc = "ProviderException") => UserRowKept(r)

\* C1 witness: a request whose provider call failed has ended, its user message kept
WitC1 ==
    \E w \in Workers :
        /\ req[w].pc = "done"
        /\ Logged(req[w], "chat_openai_failed")
        /\ UserRowKept(req[w])

\* a request that reached the content check with an absent, empty or
\* whitespace-only content
BlankRequest(r) ==
    /\ r.pc = "done"
    /\ r.resp.status # 404
    /\ r.content.t \in {"absent", "str"}
    /\ \A i \in 1..Len(r.content.s) : r.content.s[i] = " "

\* C2: an empty or whitespace-only prompt is answered 400 with a detail; the
\* request appends no row, and constructs and calls no provider.
InvC2 ==
    \A w \in Workers :
        LET r == req[w]
        IN  BlankRequest(r) =>
               /\ r.resp.status = 400
               /\ r.resp.detail = "content is required"
               /\ r.resp.exc = ""
               /\ RowsBy(r.serial) = <<>>
               /\ r.log = <<>>
               /\ r.provider = NoProvider

\* C2 witness: a whitespace-only prompt was rejected while the conversation
\* already held an earlier exchange
WitC2 ==
    \E w \in Workers :
        /\ BlankRequest(req[w])
        /\ req[w].content = JStr(<<" ">>)
        /\ req[w].resp.status = 400
        /\ Len(MessagesOf(messages, req[w].conv)) > 0

\* C3: a request with a non-empty prompt that is served by the echo provider
\* appends exactly two rows to its conversation, the user row with the prompt
\* and then the assistant row with the reply, and answers 201 with
\* provider_used = "echo".
InvC3 ==
    \A w \in Workers :
        LET r == req[w]
        IN  (r.pc = "done" /\ r.provider.kind = "echo") =>
               /\ r.resp.status = 201
               /\ r.resp.provider_used = "echo"
               /\ ~Blank(r.text)
               /\ RowsBy(r.serial) =
                      <<Row(r.conv, "user", r.text), Row(r.conv, "assistant", r.reply)>>
               /\ r.resp.user = r.user_msg /\ r.resp.assistant = r.asst_msg
               /\ r.user_msg < r.asst_msg

\* C3 witness: an echo-served request has ended
WitC3 ==
    \E w \in Workers :
        /\ req[w].pc = "done"
        /\ req[w].provider.kind = "echo"
        /\ Logged(req[w], "chat_echo")
        /\ Len(RowsBy(req[w].serial)) = 2

\* C4: with the remote provider forced by the hint and no credential
\* configured, the request ends 502 with a detail and an error text, having
\* appended its user row and nothing else.
InvC4 ==
    \A w \in Workers :
        LET r == req[w]
        IN  (r.pc = "done" /\ Accepted(r) /\ r.force = S_openai /\ environ_key = <<>>) =>
               /\ r.resp.status = 502
               /\ r.resp.detail = "OpenAI provider not available"
               /\ r.resp.error # ""
               /\ r.resp.exc = ""
               /\ RowsBy(r.serial) = <<Row(r.conv, "user", r.text)>>

\* C4 witness: such a request has ended, the package being installed and the
\* process-wide default being echo
WitC4 ==
    \E w \in Workers :
        /\ req[w].pc = "done" /\ Accepted(req[w])
        /\ req[w].force = S_openai /\ environ_key = <<>>
        /\ openai_pkg = "v1" /\ ~use_openai
        /\ req[w].resp.error = "OPENAI_API_KEY not configured"

\* C5: when the remote provider is wanted (by hint or by default) the echo
\* provider is never constructed or called for that request, and a failed
\* construction ends the request with 502 and the error text, no assistant row.
InvC5 ==
    \A w \in Workers :
        LET r == req[w]
        IN  (Accepted(r) /\ r.want_openai) =>
               /\ ~Logged(r, "construct_echo") /\ ~Logged(r, "chat_echo")
               /\ r.provider.kind # "echo"
               /\ Logged(r, "construct_openai_failed") =>
                      /\ r.pc = "done"
                      /\ r.resp.status = 502
                      /\ r.resp.error # ""
                      /\ r.asst_msg = 0
                      /\ RowsBy(r.serial) = <<Row(r.conv, "user", r.text)>>

\* C5 witness: the default, not the hint, asked for the remote provider and its
\* construction failed
WitC5 ==
    \E w \in Workers :
        /\ req[w].pc = "done"
        /\ req[w].want_openai /\ req[w].force # S_openai
        /\ Logged(req[w], "construct_openai_failed")

\* the provider a request was given: the construction event of its log
Selected(r) == r.log[2]

\* C6 as claimed: a hinted request is served by the hinted provider, and the
\* process-wide default decides only when there is no hint.
ClaimC6 ==
    \A w \in Workers :
        LET r == req[w]
        IN  Len(r.log) >= 2 =>
               /\ r.force = S_echo => Selected(r) = "construct_echo"
               /\ r.force = S_openai => Selected(r) # "construct_echo"
               /\ r.force = <<>> => (Selected(r) = "construct_echo" <=> ~use_openai)

\* C7 as claimed: a failed provider call ends the request with a structured
\* error, no exception leaves generate(), no assistant row, the user row kept.
ClaimC7 ==
    \A w \in Workers :
        LET r == req[w]
        IN  Logged(r, "chat_openai_failed") =>
               /\ r.pc = "done"
               /\ r.resp.exc = ""
               /\ r.resp.status >= 400 /\ r.resp.detail # ""
               /\ r.asst_msg = 0
               /\ UserRowKept(r)

\* C8 as claimed: a finished request has appended both of its rows or neither.
ClaimC8 ==
    \A w \in Workers :
        req[w].pc = "done" => Len(RowsBy(req[w].serial)) \in {0, 2}

\* C8 amended: a finished request has appended its user row and then its
\* assistant row when it answered 201, its user row alone when the provider
\* could not be constructed or its call failed, and nothing when it was rejected
\* before the user row was stored; at no time is the assistant row of a request
\* in the table without that request's user row before it.
InvC8 ==
    \A w \in Workers :
        LET r == req[w]
            rows == RowsBy(r.serial)
            user == Row(r.conv, "user", r.text)
            asst == Row(r.conv, "assistant", r.reply)
        IN  /\ r.pc # "idle" => rows \in {<<>>, <<user>>, <<user, asst>>}
            /\ r.pc = "done" =>
                   /\ r.resp.status = 201 <=> rows = <<user, asst>>
                   /\ (r.resp.status = 502 \/ r.resp.exc = "ProviderException")
                          <=> rows = <<user>>
                   /\ (r.resp.status \in {400, 404} \/ r.resp.exc = "AttributeError")
                          <=> rows = <<>>

\* C8 witness: a request ended 502 with its user row alone, after another
\* request had ended 201 with both rows
WitC8 ==
    \E w \in Workers :
        /\ req[w].pc = "done"
        /\ req[w].resp.status = 502
        /\ Len(RowsBy(req[w].serial)) = 1
        /\ \E m \in 1..Len(messages) :
               messages[m].role = "assistant" /\ messages[m].serial # req[w].serial

-----------------------------------------------------------------------------
(* Properties of the parameter validator *)

InRangeFloat(f) == f.k = "fin" /\ 0 <= f.v /\ f.v <= 10

\* out is the finite value v brought into [0.0, 1.0]
ClampedFloat(v, out) ==
    /\ v < 0 => out = Fin(0)
    /\ v > 10 => out = Fin(10)
    /\ (0 <= v /\ v <= 10) => out = Fin(v)

\* out is the integer v brought into [1, 2048]
ClampedInt(v, out) ==
    /\ v < 1 => out = 1
    /\ v > 2048 => out = 2048
    /\ (1 <= v /\ v <= 2048) => out = v

\* the finite value a raw float field carries, when it carries one
CarriesFloat(x) == PyFloat(x).ok /\ PyFloat(x).v.k = "fin"

\* C9: whatever the raw temperature, top_p and max_tokens, the resolved values
\* lie in [0.0, 1.0], [0.0, 1.0] and [1, 2048]; a value below the floor becomes
\* the floor, a value above the ceiling the ceiling, a value in range is kept.
InvC9 ==
    v_pc = "resolved" =>
        /\ InRangeFloat(v_out.temperature)
        /\ InRangeFloat(v_out.top_p)
        /\ 1 <= v_out.max_tokens /\ v_out.max_tokens <= 2048
        /\ CarriesFloat(v_data.temperature) =>
               ClampedFloat(PyFloat(v_data.temperature).v.v, v_out.temperature)
        /\ CarriesFloat(v_data.top_p) =>
               ClampedFloat(PyFloat(v_data.top_p).v.v, v_out.top_p)
        /\ PyInt(v_data.max_tokens).ok =>
               ClampedInt(PyInt(v_data.max_tokens).v, v_out.max_tokens)
        /\ v_data.temperature.t = "num" =>
               ClampedFloat(v_data.temperature.n, v_out.temperature)
        /\ v_data.top_p.t = "num" => ClampedFloat(v_data.top_p.n, v_out.top_p)
        /\ (v_data.max_tokens.t = "num" /\ v_data.max_tokens.n % 10 = 0) =>
               ClampedInt(v_data.max_tokens.n \div 10, v_out.max_tokens)

\* C9 witness: a temperature of 1.2, a top_p of -0.2 and a max_tokens of 2049
\* were resolved to 1.0, 0.0 and 2048
WitC9 ==
    /\ v_pc = "resolved"
    /\ v_data.temperature = JNum(12) /\ v_out.temperature = Fin(10)
    /\ v_data.top_p = JNum(-2) /\ v_out.top_p = Fin(0)
    /\ v_data.max_tokens = JNum(20490) /\ v_out.max_tokens = 2048

UnparsableFloats == {JNull, JStr(<<>>), JStr(<<"x">>), JStr(<<"1", ".", "2", ".", "3">>)}
UnparsableInts == {JNull, JStr(<<>>), JStr(<<"x">>), JStr(<<"3", ".", "5">>)}

\* the request body that carries one field of data and nothing else
Only(field, data) ==
    CASE field = "temperature" -> [NoData EXCEPT !.temperature = data.temperature]
      [] field = "top_p" -> [NoData EXCEPT !.top_p = data.top_p]
      [] field = "max_tokens" -> [NoData EXCEPT !.max_tokens = data.max_tokens]

\* C10: a field that cannot be parsed resolves to its default (0.7, 1.0, 512),
\* parameters are resolved for every input, and each resolved field is what
\* that field alone resolves to, whatever the other fields hold.
InvC10 ==
    v_pc = "resolved" =>
        /\ v_data.temperature \in UnparsableFloats => v_out.temperature = Fin(7)
        /\ v_data.top_p \in UnparsableFloats => v_out.top_p = Fin(10)
        /\ v_data.max_tokens \in UnparsableInts => v_out.max_tokens = 512
        /\ v_out.temperature = ResolveParams(Only("temperature", v_data)).temperature
        /\ v_out.top_p = ResolveParams(Only("top_p", v_data)).top_p
        /\ v_out.max_tokens = ResolveParams(Only("max_tokens", v_data)).max_tokens

\* C10 witness: an unparsable temperature beside a top_p of 0.3 and a
\* max_tokens of 3 resolved to 0.7, 0.3 and 3
WitC10 ==
    /\ v_pc = "resolved"
    /\ v_data.temperature = JStr(<<"x">>) /\ v_out.temperature = Fin(7)
    /\ v_data.top_p = JNum(3) /\ v_out.top_p = Fin(3)
    /\ v_data.max_tokens = JNum(30) /\ v_out.max_tokens = 3

\* ---------------------------------------------------------------------------
\* The streaming path: config/ws_auth.py, config/asgi.py, chat/consumers.py
\* ---------------------------------------------------------------------------
MaxFrames == 2

\* ?token=... of the websocket URL: none, one that fails validation, or a
\* valid token of a user
Tokens == {"none", "bad"} \cup Users

\* the <int:conversation_id> of the URL: alice's, bob's and a missing one
ConnTargets == {1, 2, 3}

\* a middleware that takes a token it cannot validate for the first user
GetUserFromToken_Trusting(token) == IF token \in Users THEN token ELSE "alice"

\* ws_auth.py 9-15: the token's user, AnonymousUser on any exception
GetUserFromToken(token) == IF token \in Users THEN token ELSE "anonymous"

\* ws_auth.py 19-31: scope['user'] is set only when a token is present
ScopeUser(token) == IF token = "none" THEN "absent" ELSE GetUserFromToken(token)

\* an ownership guard that only looks the conversation up
OwnsConversation_AnyOwner(user_id, convo_id, lookup) ==
    IF lookup = "error" THEN FALSE
    ELSE \E c \in Conversations : c.id = convo_id

\* consumers.py 57-62: filter(id=convo_id, owner_id=user_id).exists(), False on
\* any exception of the lookup
OwnsConversation(user_id, convo_id, lookup) ==
    IF lookup = "error" THEN FALSE
    ELSE \E c \in Conversations : c.id = convo_id /\ c.owner = user_id

\* one group for every conversation
GroupName_Shared(convo_id) == <<"chat_", 0>>

\* consumers.py 18: f"chat_{self.conversation_id}"
GroupName(convo_id) == <<"chat_", convo_id>>

GroupMembers(g, name) == IF name \in DOMAIN g THEN g[name] ELSE {}

\* channel_layer.group_add(group, channel)
GroupAdd(g, name, channel) ==
    [n \in DOMAIN g \cup {name} |-> GroupMembers(g, n) \cup
                                      (IF n = name THEN {channel} ELSE {})]

\* a discard that leaves the channel in the group
GroupDiscard_Kept(g, name, channel) == g

\* channel_layer.group_discard(group, channel); a group without members is gone
GroupDiscard(g, name, channel) ==
    [n \in {x \in DOMAIN g : g[x] \ (IF x = name THEN {channel} ELSE {}) # {}} |->
        g[n] \ (IF n = name THEN {channel} ELSE {})]

\* a message on a consumer's channel
ChannelMessage(kind, content) == [kind |-> kind, content |-> content]

NoFrame == [type |-> "", content |-> JAbsent]

WsDisconnect == ChannelMessage("websocket.disconnect", NoFrame)

\* an outbound JSON event; gen is the generation (of this connection) that
\* emitted it, 0 for an event that no generation emitted
Event(type, content, detail, role, gen) ==
    [type |-> type, content |-> content, detail |-> detail, role |-> role, gen |-> gen]

SliceLimit == 64

\* text[:n]
PySlice(text, n) == SubSeq(text, 1, IF Len(text) < n THEN Len(text) ELSE n)

Thinking == <<"T", "h", "i", "n", "k", "i", "n", "g">>

EchoPrefix == <<"E", "c", "h", "o", ":", " ">>

\* consumers.py 42
Chunks(prompt) ==
    <<Thinking, <<".">>, <<".">>, <<".">>, <<"\n">>, EchoPrefix, PySlice(prompt, SliceLimit)>>

ContentRequired == "content is required"

\* a prompt read without the fallback
OrEmpty_Missing(x) == x

\* x or ''
OrEmpty(x) == IF Truthy(x) THEN x ELSE JStr(<<>>)

\* a prompt one character longer than the slice of line 42
LongPrompt == [i \in 1..(SliceLimit + 1) |-> "a"]

Frame(type, content) == [type |-> type, content |-> content]

\* the frames clients send: generate with a prompt, with blank, missing and
\* numeric content, with a long prompt, and a frame of another type
StreamFrames ==
    {Frame("generate", JStr(<<"p">>)), Frame("generate", JStr(<<" ">>)),
     Frame("generate", JAbsent), Frame("generate", JNum(50)),
     Frame("generate", JStr(LongPrompt)), Frame("delta", JStr(<<"x">>))}

\* send_json(event)
SendJson(conn, event) == [conn EXCEPT !.out = Append(@, event)]

\* a handler may run only when the previous one has returned
CanDispatch_Concurrent(conn) ==
    /\ conn.state \in {"active", "rejected"}
    /\ conn.inbox # <<>>

\* the consumer takes the next message of its channel when the handler of the
\* previous one has returned: receive_json awaits every send and every sleep
CanDispatch(conn) ==
    /\ conn.state \in {"active", "rejected"}
    /\ ~conn.busy
    /\ conn.inbox # <<>>

\* JWTAuthMiddleware.__call__ and ChatConsumer.connect; a refused handshake is
\* followed by the server's websocket.disconnect
Connect(c) ==
    /\ conns[c].state = "new"
    /\ \A d \in ConnIds : d < c => conns[d].state # "new"
    /\ \E token \in Tokens, convo_id \in ConnTargets, lookup \in {"ok", "error"} :
        LET user == ScopeUser(token)
            c0 == [conns[c] EXCEPT !.token = token, !.user = user,
                                   !.conversation_id = convo_id]
            closed == [c0 EXCEPT !.state = "rejected", !.peer = "closed",
                                 !.inbox = <<WsDisconnect>>]
        IN  IF user \in {"absent", "anonymous"} THEN
                /\ conns' = [conns EXCEPT ![c] = closed]
                /\ UNCHANGED groups
            ELSE
                LET allowed == OwnsConversation(user, convo_id, lookup)
                IN  IF ~allowed THEN
                        /\ conns' = [conns EXCEPT ![c] = [closed EXCEPT !.lookup = lookup]]
                        /\ UNCHANGED groups
                    ELSE
                        /\ conns' = [conns EXCEPT ![c] =
                               [c0 EXCEPT !.lookup = lookup, !.allowed = TRUE,
                                          !.group_name = GroupName(convo_id),
                                          !.state = "active", !.peer = "open"]]
                        /\ groups' = GroupAdd(groups, GroupName(convo_id), c)
    /\ UNCHANGED <<frames, orch_vars, val_vars, echo_vars, rest_vars>>

\* the client sends a JSON frame
ClientSend(c) ==
    /\ conns[c].peer = "open"
    /\ frames < MaxFrames
    /\ \E frame \in StreamFrames :
           conns' = [conns EXCEPT ![c].inbox =
                        Append(@, ChannelMessage("websocket.receive", frame))]
    /\ frames' = frames + 1
    /\ UNCHANGED <<groups, orch_vars, val_vars, echo_vars, rest_vars>>

\* the client closes the socket
ClientClose(c) ==
    /\ conns[c].peer = "open"
    /\ conns' = [conns EXCEPT ![c].peer = "gone", ![c].inbox = Append(@, WsDisconnect)]
    /\ UNCHANGED <<groups, frames, orch_vars, val_vars, echo_vars, rest_vars>>

\* ChatConsumer.disconnect, after which the consumer is stopped
Disconnect(c) ==
    /\ CanDispatch(conns[c])
    /\ Head(conns[c].inbox).kind = "websocket.disconnect"
    /\ groups' = IF conns[c].group_name # <<>>
                 THEN GroupDiscard(groups, conns[c].group_name, c)
                 ELSE groups
    /\ conns' = [conns EXCEPT ![c].state = "disconnected", ![c].inbox = <<>>]
    /\ UNCHANGED <<frames, orch_vars, val_vars, echo_vars, rest_vars>>

\* channel_layer.group_send: the message reaches every member channel whose
\* consumer is still reading
GroupSend(cs, g, name, message) ==
    [d \in ConnIds |->
        IF d \in GroupMembers(g, name) /\ cs[d].state = "active"
        THEN [cs[d] EXCEPT !.inbox = Append(@, message)]
        ELSE cs[d]]

\* ChatConsumer.receive_json up to its first sleep
ReceiveJson(c) ==
    /\ CanDispatch(conns[c])
    /\ Head(conns[c].inbox).kind = "websocket.receive"
    /\ LET content == Head(conns[c].inbox).content
           c0 == [conns[c] EXCEPT !.inbox = Tail(@)]
           prompt == OrEmpty(content.content)
       IN  IF content.type = "generate" THEN
               IF prompt.t # "str" THEN
                   \* AttributeError: the consumer dies, the server drops the socket
                   conns' = [conns EXCEPT ![c] = [c0 EXCEPT !.state = "crashed",
                                !.inbox = <<>>, !.peer = "closed"]]
               ELSE IF Blank(prompt.s) THEN
                   conns' = [conns EXCEPT ![c] =
                                SendJson(c0, Event("error", JAbsent, ContentRequired, "", 0))]
               ELSE
                   conns' = [conns EXCEPT ![c] =
                                SendJson([c0 EXCEPT !.busy = TRUE, !.prompt = prompt.s,
                                                    !.next_chunk = 1, !.gens = @ + 1],
                                         Event("message_start", JAbsent, "", "assistant",
                                               c0.gens + 1))]
           ELSE
               conns' = GroupSend([conns EXCEPT ![c] = c0], groups, c0.group_name,
                                  ChannelMessage("chat.message", content))
    /\ UNCHANGED <<groups, frames, orch_vars, val_vars, echo_vars, rest_vars>>

\* a chunk loop that stops before the last chunk
GenerateStep_Stuck(c) ==
    /\ conns[c].state = "active"
    /\ conns[c].busy
    /\ LET chunks == Chunks(conns[c].prompt)
           k == conns[c].next_chunk
           sent == SendJson(conns[c], Event("delta", JStr(chunks[k]), "", "", conns[c].gens))
       IN  /\ k < Len(chunks)
           /\ conns' = [conns EXCEPT ![c] = [sent EXCEPT !.next_chunk = k + 1]]
    /\ UNCHANGED <<groups, frames, orch_vars, val_vars, echo_vars, rest_vars>>

\* ChatConsumer.receive_json from one sleep to the next: one delta, and
\* message_end after the last
GenerateStep(c) ==
    /\ conns[c].state = "active"
    /\ conns[c].busy
    /\ LET chunks == Chunks(conns[c].prompt)
           k == conns[c].next_chunk
           sent == SendJson(conns[c], Event("delta", JStr(chunks[k]), "", "", conns[c].gens))
       IN  IF k < Len(chunks) THEN
               conns' = [conns EXCEPT ![c] = [sent EXCEPT !.next_chunk = k + 1]]
           ELSE
               conns' = [conns EXCEPT ![c] =
                            [SendJson(sent, Event("message_end", JAbsent, "", "", conns[c].gens))
                                EXCEPT !.busy = FALSE, !.next_chunk = 0]]
    /\ UNCHANGED <<groups, frames, orch_vars, val_vars, echo_vars, rest_vars>>

\* ChatConsumer.chat_message: the payload goes out as it came in
ChatMessageEvent(c) ==
    /\ CanDispatch(conns[c])
    /\ Head(conns[c].inbox).kind = "chat.message"
    /\ LET payload == Head(conns[c].inbox).content
       IN  conns' = [conns EXCEPT ![c] =
                        SendJson([conns[c] EXCEPT !.inbox = Tail(@)],
                                 Event(payload.type, payload.content, "", "", 0))]
    /\ UNCHANGED <<groups, frames, orch_vars, val_vars, echo_vars, rest_vars>>

NextStream ==
    \E c \in ConnIds :
        \/ Connect(c)
        \/ ClientSend(c)
        \/ ClientClose(c)
        \/ Disconnect(c)
        \/ ReceiveJson(c)
        \/ GenerateStep(c)
        \/ ChatMessageEvent(c)

\* the settings of the orchestrator play no part on this path
InitStream ==
    /\ Init
    /\ use_openai
    /\ openai_pkg = "none"
    /\ environ_key = <<>>

SpecStream == InitStream /\ [][NextStream]_vars

\* the event loop runs every handler that can run: a message on a consumer's
\* channel is dispatched, a sleep of the chunk loop ends
FairStream ==
    \A c \in ConnIds :
        /\ WF_vars(ReceiveJson(c))
        /\ WF_vars(GenerateStep(c))
        /\ WF_vars(ChatMessageEvent(c))
        /\ WF_vars(Disconnect(c))

SpecStreamFair == SpecStream /\ FairStream

\* ---------------------------------------------------------------------------
\* Echo provider harness: EchoModel.chat applied to every bounded history
\* ---------------------------------------------------------------------------
MaxHistory == 3

Roles == {"system", "user", "assistant"}

EchoContents == {<<"a">>, <<"b">>}

Histories ==
    UNION {[1..n -> {ChatMessage(r, c) : r \in Roles, c \in EchoContents}] : n \in 0..MaxHistory}

EchoParams ==
    {[model |-> JNull, temperature |-> Fin(DefaultTemperature), top_p |-> Fin(DefaultTopP),
      max_tokens |-> DefaultMaxTokens],
     [model |-> JStr(<<"m">>), temperature |-> Fin(FloatFloor), top_p |-> Fin(FloatCeil),
      max_tokens |-> MaxTokensCeil]}

EchoCall ==
    /\ e_pc = "idle"
    /\ \E history \in Histories, params \in EchoParams :
           /\ e_history' = history
           /\ e_params' = params
           /\ e_reply' = EchoChat(history, params)
    /\ e_pc' = "called"
    /\ UNCHANGED <<orch_vars, val_vars, stream_vars, rest_vars>>

NextEcho == EchoCall

SpecEcho == Init /\ [][NextEcho]_vars

\* C11: the echo provider returns an assistant message carrying the content of
\* the last user message of the history, or '(no input)' when the history has
\* no user message, and the same message whatever the generation parameters
InvC11 ==
    e_pc = "called" =>
        /\ e_reply.role = "assistant"
        /\ \/ /\ \A i \in 1..Len(e_history) : e_history[i].role # "user"
              /\ e_reply.content = NoInput
           \/ \E i \in 1..Len(e_history) :
                 /\ e_history[i].role = "user"
                 /\ \A j \in (i + 1)..Len(e_history) : e_history[j].role # "user"
                 /\ e_reply.content = e_history[i].content
        /\ \A p \in EchoParams : EchoChat(e_history, p) = e_reply

\* the spec's example shape: user "a", assistant, user "b" echoes "b"
WitC11 ==
    /\ e_pc = "called"
    /\ Len(e_history) = 3
    /\ e_history[1] = ChatMessage("user", <<"a">>)
    /\ e_history[2].role = "assistant"
    /\ e_history[3] = ChatMessage("user", <<"b">>)
    /\ e_reply = ChatMessage("assistant", <<"b">>)

\* ---------------------------------------------------------------------------
\* Every path onto a conversation: generate, the messages action, streaming
\* ---------------------------------------------------------------------------
MaxOps == 4

\* operations started so far, over all paths
Used == next_serial + ops + frames + Cardinality({c \in ConnIds : conns[c].state # "new"})

Methods == {"GET", "POST"}

\* bodies of POST .../messages/: a valid one, an unknown role, blank content
PostBodies ==
    {[role |-> "user", content |-> <<"m">>], [role |-> "bogus", content |-> <<"m">>],
     [role |-> "user", content |-> <<" ">>]}

\* MessageSerializer.is_valid: role is one of the choices, content is not
\* blank once trimmed
IsValid(body) == body.role \in Roles /\ Strip(body.content) # <<>>

\* ConversationViewSet.messages
MessagesAction ==
    /\ Used < MaxOps
    /\ \E user \in Users, pk \in ConnTargets, method \in Methods, body \in PostBodies :
        LET r0 == [NoRest EXCEPT !.op = method, !.user = user, !.conv = pk]
        IN  IF pk \notin QuerySet(user) THEN
                /\ rest' = [r0 EXCEPT !.status = 404]
                /\ UNCHANGED messages
            ELSE IF method = "GET" THEN
                /\ rest' = [r0 EXCEPT !.status = 200, !.rows = MessagesOf(messages, pk)]
                /\ UNCHANGED messages
            ELSE IF ~IsValid(body) THEN
                /\ rest' = [r0 EXCEPT !.status = 400]
                /\ UNCHANGED messages
            ELSE
                /\ messages' = Create(messages, pk, body.role, Strip(body.content), 0)
                /\ rest' = [r0 EXCEPT !.status = 201,
                                      !.rows = <<messages'[Len(messages')]>>]
    /\ ops' = ops + 1
    /\ UNCHANGED <<req, next_serial, use_openai, openai_pkg, environ_key,
                   openai_api_key, val_vars, echo_vars, stream_vars>>

\* the frames sent on this specification: a prompt, and a frame to broadcast
AccessFrames == {Frame("generate", JStr(<<"p">>)), Frame("delta", JStr(<<"x">>))}

\* a generate by any user on any target; one that passes get_object carries
\* the content "a" and no provider hint
AccessGenerate(w) ==
    /\ Used < MaxOps
    /\ GenerateReceive(w)
    /\ \/ req'[w].resp.status = 404
       \/ req'[w].content = JStr(<<"a">>) /\ req'[w].hint = <<>>

\* a connect with any token on any target, the lookup working
AccessConnect(c) ==
    /\ Used < MaxOps
    /\ Connect(c)
    /\ conns'[c].lookup # "error"

AccessSend(c) ==
    /\ Used < MaxOps
    /\ ClientSend(c)
    /\ conns'[c].inbox[Len(conns'[c].inbox)].content \in AccessFrames

NextAccess ==
    \/ MessagesAction
    \/ \E w \in Workers :
        \/ AccessGenerate(w)
        \/ GenerateBuild(w)
        \/ GenerateConstruct(w)
        \/ GenerateChat(w)
        \/ GenerateSave(w)
        \/ Finish(w)
    \/ \E c \in ConnIds :
        \/ AccessConnect(c)
        \/ AccessSend(c)
        \/ ClientClose(c)
        \/ Disconnect(c)
        \/ ReceiveJson(c)
        \/ GenerateStep(c)
        \/ ChatMessageEvent(c)

\* the local provider is the default here, so that a generate can run to its end
InitAccess ==
    /\ Init
    /\ ~use_openai
    /\ openai_pkg = "none"
    /\ environ_key = <<>>

SpecAccess == InitAccess /\ [][NextAccess]_vars

\* ---------------------------------------------------------------------------
\* Claims about the streaming path
\* ---------------------------------------------------------------------------
\* the conversation exists and belongs to somebody else
OwnedByOther(user, convo_id) ==
    \E x \in Conversations : x.id = convo_id /\ x.owner # user

Missing(convo_id) == \A x \in Conversations : x.id # convo_id

\* the connection reached the ownership guard
Guarded(conn) == conn.lookup # ""

\* C12: the ownership guard answers true exactly for the owner of an existing
\* conversation; a missing conversation, another user's conversation and a
\* failed lookup all give false, and the consumer goes on to refuse
InvC12 ==
    \A c \in ConnIds :
        LET conn == conns[c]
        IN  Guarded(conn) =>
              /\ conn.allowed <=>
                    /\ conn.lookup = "ok"
                    /\ [id |-> conn.conversation_id, owner |-> conn.user] \in Conversations
              /\ Missing(conn.conversation_id) => ~conn.allowed
              /\ OwnedByOther(conn.user, conn.conversation_id) => ~conn.allowed
              /\ conn.lookup = "error" => ~conn.allowed /\ conn.state # "crashed"

\* the owner is let in while another user asking for the same conversation is not
WitC12 ==
    /\ Guarded(conns[1]) /\ conns[1].user = "alice" /\ conns[1].conversation_id = 1
    /\ conns[1].allowed
    /\ Guarded(conns[2]) /\ conns[2].user = "bob" /\ conns[2].conversation_id = 1
    /\ conns[2].lookup = "ok" /\ ~conns[2].allowed

\* the connection came without an identity, or with one that does not own
\* the conversation of its URL
Unentitled(conn) ==
    /\ conn.state # "new"
    /\ \/ conn.token \notin Users
       \/ [id |-> conn.conversation_id, owner |-> conn.token] \notin Conversations

InGroups(c) == {n \in DOMAIN groups : c \in groups[n]}

Handles(c) ==
    /\ conns[c].state = "active"
    /\ ~conns[c].busy
    /\ conns[c].inbox # <<>>
    /\ Head(conns[c].inbox).kind = "websocket.receive"
    /\ conns'[c].inbox = Tail(conns[c].inbox)

IsGenerate(msg) == msg.kind = "websocket.receive" /\ msg.content.type = "generate"

BlankContent(v) ==
    /\ v.t \in {"absent", "null", "str"}
    /\ \A i \in 1..Len(v.s) : v.s[i] = " "

PromptContent(v) == v.t = "str" /\ \E i \in 1..Len(v.s) : v.s[i] # " "

ErrorEvent == Event("error", JAbsent, "content is required", "", 0)

\* C16: a generate frame with empty or blank content is answered by one error
\* event and nothing else, the connection stays active and idle, and a
\* generate frame with a prompt handled after an error starts a generation
ClaimC16 ==
    [][\A c \in ConnIds :
          /\ (Handles(c) /\ IsGenerate(Head(conns[c].inbox))
                 /\ BlankContent(Head(conns[c].inbox).content.content))
               => /\ conns'[c].out = Append(conns[c].out, ErrorEvent)
                  /\ conns'[c].state = "active"
                  /\ ~conns'[c].busy
                  /\ conns'[c].gens = conns[c].gens
          /\ (Handles(c) /\ IsGenerate(Head(conns[c].inbox))
                 /\ PromptContent(Head(conns[c].inbox).content.content)
                 /\ \E i \in 1..Len(conns[c].out) : conns[c].out[i].type = "error")
               => /\ Len(conns'[c].out) = Len(conns[c].out) + 1
                  /\ conns'[c].out[Len(conns'[c].out)].type = "message_start"
                  /\ conns'[c].busy]_vars

Types(out) == [i \in 1..Len(out) |-> out[i].type]

GenerationTypes ==
    <<"message_start", "delta", "delta", "delta", "delta", "delta", "delta", "delta",
      "message_end">>

\* the error of a blank generate, then a whole generation, on one connection
WitC16 ==
    \E c \in ConnIds :
        /\ conns[c].state = "active"
        /\ Types(conns[c].out) = <<"error">> \o GenerationTypes

\* the generation that position i of the stream falls into: the last
\* message_start before i with no terminal event in between
OpenBefore(out, i) ==
    \E j \in 1..(i - 1) :
        /\ out[j].type = "message_start"
        /\ \A k \in (j + 1)..(i - 1) :
              out[k].type \notin {"message_start", "message_end", "error"}

\* C17: on every connection each delta and each message_end falls into an
\* open generation, whatever frames were sent and broadcast
ClaimC17 ==
    \A c \in ConnIds :
        \A i \in 1..Len(conns[c].out) :
            conns[c].out[i].type \in {"delta", "message_end"} => OpenBefore(conns[c].out, i)

\* C18: a generation starts on a connection only after the previous one on
\* that connection has ended, and the events of a generation are contiguous
InvC18 ==
    \A c \in ConnIds :
        LET out == conns[c].out
        IN  /\ \A i \in 1..Len(out) :
                  (out[i].type = "message_start" /\ out[i].gen > 1) =>
                      \E j \in 1..(i - 1) :
                          out[j].type = "message_end" /\ out[j].gen = out[i].gen - 1
            /\ \A i, j \in 1..Len(out) :
                  (i < j /\ out[i].gen > 0 /\ out[j].gen > 0) => out[i].gen <= out[j].gen
            /\ \A g \in 1..conns[c].gens :
                  Cardinality({i \in 1..Len(out) :
                                 out[i].gen = g /\ out[i].type = "message_start"}) = 1

\* a second generate frame waits on the channel while a generation is
\* between two deltas
WitC18 ==
    \E c \in ConnIds :
        /\ conns[c].busy
        /\ conns[c].next_chunk > 1
        /\ conns[c].inbox # <<>>
        /\ IsGenerate(Head(conns[c].inbox))
        /\ PromptContent(Head(conns[c].inbox).content.content)

RECURSIVE Concat(_)
Concat(texts) == IF texts = <<>> THEN <<>> ELSE Head(texts) \o Concat(Tail(texts))

\* the delta contents of generation g of a stream, in emission order
DeltasOf(out, g) ==
    LET ds == SelectSeq(out, LAMBDA e : e.type = "delta" /\ e.gen = g)
    IN  [i \in 1..Len(ds) |-> ds[i].content.s]

\* C19: the deltas of a finished generation add up to the reply the echo
\* provider gives to the same prompt
ClaimC19 ==
    \A c \in ConnIds :
        (conns[c].gens > 0 /\ ~conns[c].busy) =>
            Concat(DeltasOf(conns[c].out, conns[c].gens)) =
                EchoChat(<<ChatMessage("user", conns[c].prompt)>>, NoParams).content

\* C20: a connection is in a group only if it passed the ownership check, the
\* group is the one of its conversation, and its disconnect has not been
\* handled; a handled disconnect leaves it in no group, joined or not
InvC20 ==
    \A c \in ConnIds :
        /\ \A n \in InGroups(c) :
              /\ conns[c].allowed
              /\ n = GroupName(conns[c].conversation_id)
              /\ conns[c].state # "disconnected"
        /\ conns[c].state = "disconnected" => InGroups(c) = {}
        /\ conns[c].state = "active" => InGroups(c) = {GroupName(conns[c].conversation_id)}
        /\ conns[c].state = "rejected" => InGroups(c) = {}

\* one connection joined and left, the other was refused and its disconnect
\* handled, while a third party is not there to keep the group alive
WitC20 ==
    /\ conns[1].state = "disconnected" /\ conns[1].allowed
    /\ conns[2].state = "disconnected" /\ ~conns[2].allowed
    /\ groups = <<>>

\* ---------------------------------------------------------------------------
\* Claims about ownership on every path
\* ---------------------------------------------------------------------------
Owns(user, convo_id) == [id |-> convo_id, owner |-> user] \in Conversations

\* the rows that this step adds to the Message table
NewRows == {i \in (Len(messages) + 1)..Len(messages') : TRUE}

\* what each path has handed out or let in belongs to the owner
OwnerOnly ==
    /\ (rest.status \in {200, 201, 400} \/ rest.rows # <<>>) =>
           /\ Owns(rest.user, rest.conv)
           /\ \A i \in 1..Len(rest.rows) : rest.rows[i].conversation = rest.conv
    /\ \A w \in Workers :
           req[w].resp.status \notin {0, 404} => Owns(req[w].user, req[w].conv)
    /\ \A w \in Workers :
           (req[w].user_msg # 0 \/ req[w].asst_msg # 0 \/ req[w].pc \notin {"idle", "done"})
               => Owns(req[w].user, req[w].conv)
    /\ \A c \in ConnIds :
           (conns[c].allowed \/ conns[c].state \in {"active", "crashed"}
              \/ conns[c].out # <<>> \/ conns[c].inbox \notin {<<>>, <<WsDisconnect>>}
              \/ InGroups(c) # {})
               => Owns(conns[c].token, conns[c].conversation_id)

\* a row is added only by a request of the owner of its conversation
OwnerAppends ==
    \A i \in NewRows :
        \/ /\ ops' # ops
           /\ rest'.conv = messages'[i].conversation
           /\ Owns(rest'.user, rest'.conv)
        \/ \E w \in Workers :
              /\ req'[w] # req[w]
              /\ req'[w].conv = messages'[i].conversation
              /\ Owns(req'[w].user, req'[w].conv)

\* C13: on generate, on the messages action and on the stream, only the owner
\* of a conversation is given its messages, adds a message to it, or has a
\* streaming session on it accepted
ClaimC13 == []OwnerOnly /\ [][OwnerAppends]_vars

\* bob's conversation holds a message; alice was refused its list and a
\* generate of bob on alice's conversation was refused, after alice had added
\* a message to her own conversation and opened a stream on it
WitC13 ==
    /\ rest.op = "GET" /\ rest.user = "alice" /\ rest.conv = 2 /\ rest.status = 404
    /\ MessagesOf(messages, 2) # <<>>
    /\ MessagesOf(messages, 1) # <<>>
    /\ \E w \in Workers :
          /\ req[w].pc = "done" /\ req[w].user = "bob" /\ req[w].conv = 1
          /\ req[w].resp.status = 404
    /\ \E c \in ConnIds : conns[c].state = "active" /\ conns[c].conversation_id = 1

\* what the client of a connection can observe of its handshake
Observed(conn) == [peer |-> conn.peer, out |-> conn.out, accepted |-> conn.allowed]

RefusedGenerate(r) ==
    /\ r.pc = "done"
    /\ OwnedByOther(r.user, r.conv) \/ Missing(r.conv)

RefusedConnect(conn) ==
    /\ conn.state # "new"
    /\ conn.token \in Users
    /\ OwnedByOther(conn.token, conn.conversation_id) \/ Missing(conn.conversation_id)

\* C14: a user gets the same answer for a conversation of somebody else as
\* for a conversation that does not exist: the same response to generate and
\* no row written, the same refused handshake on the stream
InvC14 ==
    /\ \A v, w \in Workers :
          (RefusedGenerate(req[v]) /\ RefusedGenerate(req[w]) /\ req[v].user = req[w].user)
              => /\ req[v].resp = req[w].resp
                 /\ RowsBy(req[v].serial) = RowsBy(req[w].serial)
                 /\ RowsBy(req[v].serial) = <<>>
    /\ \A c, d \in ConnIds :
          (RefusedConnect(conns[c]) /\ RefusedConnect(conns[d])
             /\ conns[c].token = conns[d].token)
              => /\ Observed(conns[c]) = Observed(conns[d])
                 /\ ~Observed(conns[c]).accepted
                 /\ InGroups(c) = {} /\ InGroups(d) = {}

\* bob asked for alice's conversation and for a missing one, on both paths
WitC14 ==
    /\ req[1].pc = "done" /\ req[1].user = "bob" /\ req[1].conv = 1
    /\ req[2].pc = "done" /\ req[2].user = "bob" /\ req[2].conv = 3
    /\ conns[1].token = "bob" /\ conns[1].conversation_id = 1
    /\ conns[2].token = "bob" /\ conns[2].conversation_id = 3

\* ---------------------------------------------------------------------------
\* Further claims about the synchronous path
\* ---------------------------------------------------------------------------
Succeeded(r) == r.pc = "done" /\ r.resp.status = 201

\* the provider whose chat produced the reply of r
ActualProvider(r) ==
    IF Logged(r, "chat_openai") THEN "remote"
    ELSE IF Logged(r, "chat_echo") THEN "echo" ELSE "none"

\* C24 as claimed: a 201 response says "echo" or "remote", whichever provider
\* produced the reply
ClaimC24 ==
    \A w \in Workers :
        Succeeded(req[w]) =>
            /\ req[w].resp.provider_used \in {"echo", "remote"}
            /\ req[w].resp.provider_used = ActualProvider(req[w])

\* C24 amended: a 201 response says "echo" when the echo provider produced the
\* reply and "openai" when the remote provider did
InvC24 ==
    \A w \in Workers :
        Succeeded(req[w]) =>
            /\ req[w].resp.provider_used \in {"echo", "openai"}
            /\ req[w].resp.provider_used = "echo" <=> ActualProvider(req[w]) = "echo"
            /\ req[w].resp.provider_used = "openai" <=> ActualProvider(req[w]) = "remote"

\* one request answered by the remote provider, the other by the echo provider
WitC24 ==
    /\ Succeeded(req[1]) /\ req[1].resp.provider_used = "openai"
    /\ Succeeded(req[2]) /\ req[2].resp.provider_used = "echo"

\* the assistant row of a request comes after its user row, each at most once
RequestRows(s) ==
    LET us == {i \in 1..Len(messages) : messages[i].serial = s /\ messages[i].role = "user"}
        as == {i \in 1..Len(messages) : messages[i].serial = s /\ messages[i].role = "assistant"}
    IN  /\ Cardinality(us) <= 1
        /\ Cardinality(as) <= 1
        /\ \A i \in us, j \in as : i < j /\ messages[i].id < messages[j].id
        /\ as # {} => us # {}

\* the table in append order is the table in id order, and a read of one
\* conversation is its rows in that order
AppendOrder ==
    /\ \A i, j \in 1..Len(messages) : i < j => messages[i].id < messages[j].id
    /\ \A conv \in TargetIds :
          LET rows == MessagesOf(messages, conv)
          IN  /\ \A i, j \in 1..Len(rows) : i < j => rows[i].id < rows[j].id
              /\ {rows[i] : i \in 1..Len(rows)} =
                     {messages[i] : i \in {k \in 1..Len(messages) :
                                              messages[k].conversation = conv}}
              /\ Len(rows) = Cardinality({k \in 1..Len(messages) :
                                             messages[k].conversation = conv})
    /\ \A s \in 1..next_serial : RequestRows(s)
    /\ \A w \in Workers :
          /\ req[w].user_msg # 0 => messages[req[w].user_msg].id = req[w].user_msg
          /\ req[w].asst_msg # 0 => messages[req[w].asst_msg].id = req[w].asst_msg

\* a step removes or changes no row
RowsKept == \A i \in 1..Len(messages) : Len(messages') >= i /\ messages'[i] = messages[i]

\* C25: with concurrent generate requests no row is lost or duplicated, reads
\* see the rows in append order, and a request's user row precedes its
\* assistant row
ClaimC25 == []AppendOrder /\ [][RowsKept]_vars

\* two requests on alice's conversation interleaved: user, user, assistant, assistant
WitC25 ==
    /\ Len(messages) = 5
    /\ messages[2].conversation = 1 /\ messages[2].role = "user"
    /\ messages[3].conversation = 1 /\ messages[3].role = "user"
    /\ messages[3].serial # messages[2].serial
    /\ messages[4].role = "assistant" /\ messages[5].role = "assistant"
    /\ messages[4].serial = messages[3].serial

\* C26: the echo provider's reply to a request is that request's own prompt
ClaimC26 ==
    \A w \in Workers :
        Logged(req[w], "chat_echo") => req[w].reply = req[w].text

\* C27: content that is present but null or not text is answered with 400 and
\* writes nothing on generate, and kills no consumer on the stream
ClaimC27 ==
    /\ \A w \in Workers :
          (req[w].pc = "done" /\ req[w].resp.status # 404
             /\ req[w].content.t \in {"null", "num", "bool"})
              => /\ req[w].resp.status = 400
                 /\ req[w].resp.exc = ""
                 /\ RowsBy(req[w].serial) = <<>>
    /\ \A c \in ConnIds : conns[c].state # "crashed"

Constructed(r) == Logged(r, "construct_openai") \/ Logged(r, "construct_openai_failed")

\* C29: a first openai.OpenAI() that fails on 'proxies' is followed by exactly
\* one call with an httpx client; any other failure ends the construction at
\* once and is the error reported; the legacy package builds no client
InvC29 ==
    \A w \in Workers :
        LET r == req[w]
            t == r.attempts
        IN  Constructed(r) =>
              /\ Len(t) <= 2
              /\ openai_pkg # "v1" => t = <<>>
              /\ Len(t) >= 1 =>
                    /\ t[1].client = "default"
                    /\ t[1].result = ProxiesTypeError
                          => Len(t) = 2 /\ t[2].client = "httpx"
                    /\ t[1].result # ProxiesTypeError => Len(t) = 1
                    /\ t[Len(t)].result # "ok"
                          => /\ Logged(r, "construct_openai_failed")
                             /\ r.resp.status = 502
                             /\ r.resp.error = t[Len(t)].result
                    /\ t[Len(t)].result = "ok"
                          => /\ Logged(r, "construct_openai")
                             /\ r.provider.mode = "v1"
                             /\ r.provider.client = t[Len(t)].client
              /\ (Logged(r, "construct_openai") /\ openai_pkg = "legacy")
                    => r.provider.mode = "legacy" /\ r.provider.client = "none"

\* one construction retried with an httpx client, another ended by a
\* TypeError that does not name 'proxies'
WitC29 ==
    /\ req[1].attempts = <<Attempt("default", ProxiesTypeError), Attempt("httpx", "ok")>>
    /\ req[1].provider.client = "httpx"
    /\ req[2].attempts = <<Attempt("default", "TypeError")>>
    /\ req[2].resp.status = 502

\* C30: no step changes os.environ['OPENAI_API_KEY'] or openai.api_key, and a
\* constructed instance holds the credential that the process-wide values give
ClaimC30 ==
    [][/\ environ_key' = environ_key
       /\ openai_api_key' = openai_api_key
       /\ \A w \in Workers :
             req'[w].provider.kind = "openai" =>
                 req'[w].provider.api_key = environ_key']_vars

\* ---------------------------------------------------------------------------
\* Further claims about the streaming path
\* ---------------------------------------------------------------------------
\* C21: once the client has closed a connection on which a generation is
\* streaming, nothing more is emitted on it and no row is written
ClaimC21 ==
    [][\A c \in ConnIds :
          (conns[c].peer = "gone" /\ conns[c].busy) =>
              /\ conns'[c].out = conns[c].out
              /\ messages' = messages]_vars

\* the consumer of c handles the message at the head of its channel in this step
Dispatches(c) ==
    /\ conns[c].state = "active"
    /\ ~conns[c].busy
    /\ conns[c].inbox # <<>>
    /\ conns'[c] # conns[c]
    /\ Len(conns'[c].inbox) <= Len(conns[c].inbox)

\* the live connections on the conversation of c
SameConversation(c) ==
    {d \in ConnIds : conns[d].state = "active"
                       /\ conns[d].conversation_id = conns[c].conversation_id}

\* a frame of another type is put, unchanged, on the channel of every live
\* connection of the sender's conversation and of no other
Relayed(c) ==
    LET head == Head(conns[c].inbox)
        note == [kind |-> "chat.message", content |-> head.content]
    IN  (Dispatches(c) /\ head.kind = "websocket.receive" /\ head.content.type # "generate")
        => /\ conns'[c].gens = conns[c].gens
           /\ ~conns'[c].busy
           /\ groups' = groups
           /\ \A d \in ConnIds :
                 LET before == IF d = c THEN Tail(conns[d].inbox) ELSE conns[d].inbox
                 IN  /\ conns'[d].out = conns[d].out
                     /\ conns'[d].inbox = IF d \in SameConversation(c)
                                          THEN Append(before, note) ELSE before

\* a relayed frame goes out with its type and content as they came in
Delivered(c) ==
    LET head == Head(conns[c].inbox)
    IN  (Dispatches(c) /\ head.kind = "chat.message")
        => /\ Len(conns'[c].out) = Len(conns[c].out) + 1
           /\ SubSeq(conns'[c].out, 1, Len(conns[c].out)) = conns[c].out
           /\ conns'[c].out[Len(conns'[c].out)].type = head.content.type
           /\ conns'[c].out[Len(conns'[c].out)].content = head.content.content
           /\ conns'[c].gens = conns[c].gens
           /\ ~conns'[c].busy

\* C22: a frame whose type is not generate starts no generation and reaches,
\* unchanged, exactly the live connections of the sender's conversation
ClaimC22 == [][\A c \in ConnIds : Relayed(c) /\ Delivered(c)]_vars

\* two connections on alice's conversation, and the frame one of them sent
\* has gone out on both
WitC22 ==
    /\ conns[1].conversation_id = 1 /\ conns[2].conversation_id = 1
    /\ \A c \in ConnIds :
          /\ conns[c].state = "active"
          /\ \E i \in 1..Len(conns[c].out) :
                conns[c].out[i] = Event("delta", JStr(<<"x">>), "", "", 0)
    /\ frames = 1

\* the text streamed by generation g of a connection
Streamed(conn, g) == Concat(DeltasOf(conn.out, g))

\* C23: after a 201 response and after a streamed message_end the
\* conversation holds the prompt and, after it, the assistant reply
ClaimC23 ==
    /\ \A w \in Workers :
          Succeeded(req[w]) =>
              \E i, j \in 1..Len(messages) :
                  /\ i < j
                  /\ messages[i].conversation = req[w].conv
                  /\ messages[i].role = "user" /\ messages[i].content = req[w].text
                  /\ messages[j].conversation = req[w].conv
                  /\ messages[j].role = "assistant" /\ messages[j].content = req[w].reply
    /\ \A c \in ConnIds :
          (conns[c].gens > 0 /\ ~conns[c].busy) =>
              \E i, j \in 1..Len(messages) :
                  /\ i < j
                  /\ messages[i].conversation = conns[c].conversation_id
                  /\ messages[i].role = "user" /\ messages[i].content = conns[c].prompt
                  /\ messages[j].conversation = conns[c].conversation_id
                  /\ messages[j].role = "assistant"
                  /\ messages[j].content = Streamed(conns[c], conns[c].gens)

HasPrompt(inbox) ==
    \E i \in 1..Len(inbox) : IsGenerate(inbox[i]) /\ PromptContent(inbox[i].content.content)

\* generation g of the connection has gone out from message_start to message_end
Answered(conn, g) ==
    \E i, j \in 1..Len(conn.out) :
        /\ i < j
        /\ conn.out[i].type = "message_start" /\ conn.out[i].gen = g
        /\ conn.out[j].type = "message_end" /\ conn.out[j].gen = g
        /\ Len(DeltasOf(conn.out, g)) = Len(Chunks(conn.prompt))

\* C28: on a connection that stays open a generate frame with a prompt is
\* answered from message_start to message_end and the connection is then
\* free for the next message; a generation under way always ends
ClaimC28 ==
    /\ \A c \in ConnIds : \A g \in 0..MaxFrames :
          (conns[c].state = "active" /\ conns[c].gens = g /\ ~conns[c].busy
             /\ HasPrompt(conns[c].inbox))
          ~> \/ conns[c].peer # "open"
             \/ /\ conns[c].gens = g + 1
                /\ ~conns[c].busy
                /\ conns[c].state = "active"
                /\ Answered(conns[c], g + 1)
    /\ \A c \in ConnIds : conns[c].busy ~> ~conns[c].busy

\* two generations answered one after the other on one connection
WitC28 ==
    \E c \in ConnIds :
        /\ conns[c].state = "active" /\ conns[c].peer = "open"
        /\ Types(conns[c].out) = GenerationTypes \o GenerationTypes
        /\ Answered(conns[c], 2)

====
